---------------------------- MODULE Spec2Model ----------------------------
(***************************************************************************)
(* EpubBookParser.get_chapters of                                          *)
(* audiobook_generator/book_parsers/epub_book_parser.py.                   *)
(*                                                                         *)
(* A Python str is a sequence of characters; a character is a one-element  *)
(* token.  ASCII characters are written as themselves, every other         *)
(* character by its code point ("U+4E2D").  The source file stores its     *)
(* non-ASCII literals as the code points listed in the definitions below.  *)
(***************************************************************************)
EXTENDS Naturals, Sequences, FiniteSets, TLC

(***************************************************************************)
(* Character classes of Python's re module on str patterns.                *)
(***************************************************************************)
Lower == {"a","b","c","d","e","f","g","h","i","j","k","l","m",
          "n","o","p","q","r","s","t","u","v","w","x","y","z"}

Upper == {"A","B","C","D","E","F","G","H","I","J","K","L","M",
          "N","O","P","Q","R","S","T","U","V","W","X","Y","Z"}

Digit == {"0","1","2","3","4","5","6","7","8","9"}

\* the Cyrillic letters that occur in the literals of the source file
Cyrillic == {"U+0412","U+0432","U+0433","U+043F","U+0458","U+0492","U+0496",
             "U+049B","U+04A3","U+04AE","U+04B7","U+04B9","U+04EE"}

\* [\u4e00-\u9fa5] (line 154), as far as the model's texts use it
Hanzi == {"U+4E2D","U+6587"}

\* \s
Whitespace == {" ", "\n", "\t", "U+00A0"}

\* \w
WordChar == Lower \cup Upper \cup Digit \cup {"_"} \cup Cyrillic \cup Hanzi

IsSpace(c) == c \in Whitespace

IsWord(c) == c \in WordChar

(***************************************************************************)
(* str and re primitives.                                                  *)
(***************************************************************************)
MatchAt(s, old, i) ==
  /\ i + Len(old) - 1 <= Len(s)
  /\ \A k \in 1..Len(old) : s[i + k - 1] = old[k]

RECURSIVE ReplaceFrom(_, _, _, _)
ReplaceFrom(s, old, new, i) ==
  IF i > Len(s) THEN <<>>
  ELSE IF MatchAt(s, old, i)
       THEN new \o ReplaceFrom(s, old, new, i + Len(old))
       ELSE <<s[i]>> \o ReplaceFrom(s, old, new, i + 1)

RECURSIVE Interleave(_, _, _)
Interleave(s, new, i) ==
  IF i > Len(s) THEN new ELSE new \o <<s[i]>> \o Interleave(s, new, i + 1)

\* str.replace(old, new): every non-overlapping occurrence, left to right;
\* an empty old matches before every character and at the end
Replace(s, old, new) ==
  IF old = <<>> THEN Interleave(s, new, 1) ELSE ReplaceFrom(s, old, new, 1)

RECURSIVE LStrip(_)
LStrip(s) == IF s # <<>> /\ IsSpace(Head(s)) THEN LStrip(Tail(s)) ELSE s

RECURSIVE RStrip(_)
RStrip(s) ==
  IF s # <<>> /\ IsSpace(s[Len(s)]) THEN RStrip(SubSeq(s, 1, Len(s) - 1)) ELSE s

\* str.strip()
Strip(s) == RStrip(LStrip(s))

\* end of the maximal run of characters of class cls that starts at i
RECURSIVE RunEnd(_, _, _)
RunEnd(s, cls, i) ==
  IF i < Len(s) /\ s[i + 1] \in cls THEN RunEnd(s, cls, i + 1) ELSE i

\* re.sub(r"[cls]{min,}", repl, s): every maximal run of at least min
\* characters of cls becomes repl (repl holds no backslash)
RECURSIVE SubRunsFrom(_, _, _, _, _)
SubRunsFrom(s, cls, min, repl, i) ==
  IF i > Len(s) THEN <<>>
  ELSE IF s[i] \in cls
       THEN LET e == RunEnd(s, cls, i)
            IN  (IF e - i + 1 >= min THEN repl ELSE SubSeq(s, i, e))
                  \o SubRunsFrom(s, cls, min, repl, e + 1)
       ELSE <<s[i]>> \o SubRunsFrom(s, cls, min, repl, i + 1)

SubRuns(s, cls, min, repl) == SubRunsFrom(s, cls, min, repl, 1)

\* re.split(r"[cls]", s): the pieces between the separators, empty ones kept
RECURSIVE SplitFrom(_, _, _, _)
SplitFrom(s, cls, i, cur) ==
  IF i > Len(s) THEN <<cur>>
  ELSE IF s[i] \in cls
       THEN <<cur>> \o SplitFrom(s, cls, i + 1, <<>>)
       ELSE SplitFrom(s, cls, i + 1, Append(cur, s[i]))

Split(s, cls) == SplitFrom(s, cls, 1, <<>>)

Contains(s, cls) == \E i \in 1..Len(s) : s[i] \in cls

\* s[:n]
Prefix(s, n) == SubSeq(s, 1, IF Len(s) < n THEN Len(s) ELSE n)

(***************************************************************************)
(* prep_text (lines 43-67): the ordered literal replacements, then strip.  *)
(***************************************************************************)
PrepRules == <<
  << <<"-","-">>,                     <<",", " ">> >>,
  << <<"U+0432","U+0496","U+201D">>,  <<",", " ">> >>,
  << <<";">>,                         <<",", " ">> >>,
  << <<":">>,                         <<",", " ">> >>,
  << <<"'","'">>,                     <<",", " ">> >>,
  << <<"U+0432","U+0496","U+04B7">>,  <<"'">> >>,
  << <<"U+0432","U+0496","U+04A3">>,  <<"\"">> >>,
  << <<"U+0432","U+0496","U+049B">>,  <<"\"">> >>,
  << <<"U+0432","U+2014","U+04AE">>,  <<>> >>,
  << <<"U+0412","U+00A0",".","U+0412","U+00A0",".","U+0412","U+00A0","."," ">>,
                                      <<",", " ">> >>,
  << <<".",".","."," ">>,             <<",", " ">> >>,
  << <<"U+0412","U+00AB">>,           <<" ">> >>,
  << <<"U+0412","U+00BB">>,           <<" ">> >>,
  << <<"[">>,                         <<>> >>,
  << <<"]">>,                         <<>> >>,
  << <<"&">>,                         <<" ","a","n","d"," ">> >>,
  << <<" ","G","N","U"," ">>,         <<" ","n","e","w"," ">> >>,
  << <<"\n">>,                        <<" ","\n">> >>,
  << <<"*">>,                         <<" ">> >>
>>

RECURSIVE ApplyRules(_, _, _)
ApplyRules(s, rules, k) ==
  IF k > Len(rules) THEN s
  ELSE ApplyRules(Replace(s, rules[k][1], rules[k][2]), rules, k + 1)

prep_text(text_in) == Strip(ApplyRules(text_in, PrepRules, 1))

(***************************************************************************)
(* The text steps of get_chapters (lines 130-157).                         *)
(***************************************************************************)
ValidModes == {"single", "double"}

\* lines 131-134: re.sub(r"[\n]+" or r"[\n]{2,}", break_string, raw.strip())
CollapseNewlines(raw, mode, break_string) ==
  IF mode = "single"
  THEN SubRuns(Strip(raw), {"\n"}, 1, break_string)
  ELSE SubRuns(Strip(raw), {"\n"}, 2, break_string)

\* line 139: re.sub(r"\s+", " ", cleaned_text)
SquashWhitespace(text) == SubRuns(text, Whitespace, 1, <<" ">>)

\* the class without its a-zA-Z
PunctuationOnly ==
  {".", ",", "!", "?", ";", "\"", ")"} \cup {"U+0432", "U+0496", "U+049B"}

\* line 144: the lookbehind class [a-zA-Z.,!?;...")]
EndnoteLookbehind ==
  Lower \cup Upper \cup {".", ",", "!", "?", ";", "\"", ")"}
        \cup {"U+0432", "U+0496", "U+049B"}

\* line 144: re.sub(r'(?<=[...])\d+', "", cleaned_text)
RECURSIVE StripEndnotesFrom(_, _)
StripEndnotesFrom(s, i) ==
  IF i > Len(s) THEN <<>>
  ELSE IF s[i] \in Digit /\ i > 1 /\ s[i - 1] \in EndnoteLookbehind
       THEN StripEndnotesFrom(s, RunEnd(s, Digit, i) + 1)
       ELSE <<s[i]>> \o StripEndnotesFrom(s, i + 1)

StripEndnotes(text) == StripEndnotesFrom(text, 1)

\* line 148: self.config.language.startswith("zh")
StartsWithZh(language) == MatchAt(language, <<"z", "h">>, 1)

\* line 151: the characters of the class the text is split on
SentenceSplitClass ==
  {"U+0433", "U+0496", "U+04EE", "U+043F", "U+0458", "U+04B9", "U+0492"}

\* line 155: re.sub(r"\s+", "", sentence)
RemoveWhitespace(sentence) == SubRuns(sentence, Whitespace, 1, <<>>)

\* lines 153-156: each sentence with a Hanzi is replaced, wherever it occurs
\* in the text as it stands, by its whitespace-free form
RECURSIVE CjkLoop(_, _, _)
CjkLoop(text, sentences, k) ==
  IF k > Len(sentences) THEN text
  ELSE IF Contains(sentences[k], Hanzi)
       THEN CjkLoop(Replace(text, sentences[k], RemoveWhitespace(sentences[k])),
                    sentences, k + 1)
       ELSE CjkLoop(text, sentences, k + 1)

CjkSpacer(text) == CjkLoop(text, Split(text, SentenceSplitClass), 1)

\* line 161: cleaned_text[:60]
TitleSlice == 60

\* lines 170-177
JoinerMut(title, break_string) ==
  SubRuns(Strip(SelectSeq(Replace(title, break_string, <<" ">>),
                          LAMBDA c : IsWord(c) \/ IsSpace(c))),
          Whitespace, 1, <<"-">>)

sanitize_title(title, break_string) ==
  SubRuns(Strip(SelectSeq(Replace(title, break_string, <<" ">>),
                          LAMBDA c : IsWord(c) \/ IsSpace(c))),
          Whitespace, 1, <<"_">>)

(***************************************************************************)
(* The BeautifulSoup tree: the nodes in document order, each with its      *)
(* parent's position (0: a child of the soup object), and the set of nodes *)
(* not yet decomposed.  A string node has the name "#text".                *)
(***************************************************************************)
Element(name, parent) ==
  [name |-> name, href |-> FALSE, parent |-> parent, text |-> <<>>]

Anchor(parent) ==
  [name |-> "a", href |-> TRUE, parent |-> parent, text |-> <<>>]

String(text, parent) ==
  [name |-> "#text", href |-> FALSE, parent |-> parent, text |-> text]

NoSoup == [nodes |-> <<>>, alive |-> {}]

\* lines 69-81
blacklist == {"[document]", "noscript", "header", "html", "meta", "head",
              "input", "script", "pre", "code"}

\* line 121
title_levels == <<"title", "h1", "h2", "h3">>

RECURSIVE IsUnder(_, _, _)
IsUnder(nodes, j, i) ==
  \/ j = i
  \/ nodes[j].parent # 0 /\ IsUnder(nodes, nodes[j].parent, i)

\* line 114, BeautifulSoup(content, "lxml"): the HTML parser puts markup that
\* has no html root under html and body elements of its own
ParseLxml(content) ==
  IF content = <<>> \/ content[1].name = "html"
  THEN [nodes |-> content, alive |-> 1..Len(content)]
  ELSE [nodes |-> <<Element("html", 0), Element("body", 1)>> \o
                  [k \in 1..Len(content) |->
                     [content[k] EXCEPT !.parent = IF @ = 0 THEN 2 ELSE @ + 2]],
        alive |-> 1..(Len(content) + 2)]

\* Tag.decompose(): the node and everything under it leave the tree
Decompose(soup, i) ==
  [soup EXCEPT !.alive = {j \in @ : ~IsUnder(soup.nodes, j, i)}]

\* the positions of a set of nodes, in document order
RECURSIVE InOrder(_, _)
InOrder(S, n) ==
  IF n = 0 THEN <<>>
  ELSE IF n \in S THEN Append(InOrder(S, n - 1), n) ELSE InOrder(S, n - 1)

\* soup.find_all(names)
FindAll(soup, names) ==
  InOrder({i \in soup.alive : soup.nodes[i].name \in names}, Len(soup.nodes))

\* soup.findAll("a", href=True)
FindAllLinks(soup) ==
  InOrder({i \in soup.alive : soup.nodes[i].name = "a" /\ soup.nodes[i].href},
          Len(soup.nodes))

\* for tag in found: tag.decompose()
RECURSIVE DecomposeEach(_, _, _)
DecomposeEach(soup, found, k) ==
  IF k > Len(found) THEN soup
  ELSE DecomposeEach(Decompose(soup, found[k]), found, k + 1)

RECURSIVE ConcatText(_, _, _)
ConcatText(nodes, S, k) ==
  IF k > Len(nodes) THEN <<>>
  ELSE (IF k \in S THEN nodes[k].text ELSE <<>>) \o ConcatText(nodes, S, k + 1)

\* soup.get_text(strip=False): the strings of the tree, in document order
GetText(soup) == ConcatText(soup.nodes, soup.alive, 1)

\* soup.find(level): the first such element, 0 for None
Find(soup, level) ==
  LET found == FindAll(soup, {level})
  IN  IF found = <<>> THEN 0 ELSE found[1]

\* soup.find(level).text
TextOf(soup, i) ==
  ConcatText(soup.nodes, {j \in soup.alive : IsUnder(soup.nodes, j, i)}, 1)

\* lines 120-125
RECURSIVE ResolveTitle(_, _)
ResolveTitle(soup, k) ==
  IF k > Len(title_levels) THEN <<>>
  ELSE IF Find(soup, title_levels[k]) # 0
       THEN TextOf(soup, Find(soup, title_levels[k]))
       ELSE ResolveTitle(soup, k + 1)

(***************************************************************************)
(* State of one run of get_chapters.                                       *)
(*   book          the document items, each the markup of one document     *)
(*   config        newline_mode, remove_endnotes, language                 *)
(*   break_string  the argument of get_chapters                            *)
(*   idx           how many items the for loop of line 112 has taken       *)
(*   pc            the position in the loop body                           *)
(*   soup, title, raw   the locals of lines 114, 120-125 and 126           *)
(*   prepped       raw as reassigned on line 130                           *)
(*   cleaned1, cleaned2, cleaned4, cleaned5                                *)
(*                 cleaned_text as logged as "step 1", "step 2", "step 4"  *)
(*                 and "step 5" (lines 138, 140, 145, 157)                 *)
(*   chapters      the list returned                                       *)
(*   error         the mode named by the ValueError of line 136            *)
(***************************************************************************)
VARIABLES book, config, break_string, idx, pc, soup, title, raw, prepped,
          cleaned1, cleaned2, cleaned4, cleaned5, chapters, error

vars == <<book, config, break_string, idx, pc, soup, title, raw, prepped,
          cleaned1, cleaned2, cleaned4, cleaned5, chapters, error>>

inputs == <<book, config, break_string>>

texts == <<raw, prepped, cleaned1, cleaned2, cleaned4, cleaned5>>

NoError == "none"

\* line 112-114: the next item is taken and parsed
NextItem ==
  /\ pc = "loop"
  /\ idx < Len(book)
  /\ idx' = idx + 1
  /\ soup' = ParseLxml(book[idx + 1])
  /\ title' = <<>>
  /\ raw' = <<>> /\ prepped' = <<>>
  /\ cleaned1' = <<>> /\ cleaned2' = <<>> /\ cleaned4' = <<>> /\ cleaned5' = <<>>
  /\ pc' = "blacklist"
  /\ UNCHANGED <<inputs, chapters, error>>

\* lines 115-116
FilterBlacklist ==
  /\ pc = "blacklist"
  /\ soup' = DecomposeEach(soup, FindAll(soup, blacklist), 1)
  /\ pc' = "links"
  /\ UNCHANGED <<inputs, idx, title, texts, chapters, error>>

\* the commented-out chap2text (lines 100-103): only the links whose text has
\* no letter are taken out
FootnoteLinksOnly ==
  /\ pc = "links"
  /\ soup' = DecomposeEach(soup,
               SelectSeq(FindAllLinks(soup),
                         LAMBDA i : ~Contains(TextOf(soup, i), Lower \cup Upper)), 1)
  /\ pc' = "title"
  /\ UNCHANGED <<inputs, idx, title, texts, chapters, error>>

\* lines 118-119
FilterLinks ==
  /\ pc = "links"
  /\ soup' = DecomposeEach(soup, FindAllLinks(soup), 1)
  /\ pc' = "title"
  /\ UNCHANGED <<inputs, idx, title, texts, chapters, error>>

\* lines 120-125
FindTitle ==
  /\ pc = "title"
  /\ title' = ResolveTitle(soup, 1)
  /\ pc' = "get_text"
  /\ UNCHANGED <<inputs, idx, soup, texts, chapters, error>>

\* line 126
ExtractText ==
  /\ pc = "get_text"
  /\ raw' = GetText(soup)
  /\ pc' = "prep"
  /\ UNCHANGED <<inputs, idx, soup, title, prepped, cleaned1, cleaned2,
                 cleaned4, cleaned5, chapters, error>>

\* line 130
PrepText ==
  /\ pc = "prep"
  /\ prepped' = prep_text(raw)
  /\ pc' = "collapse"
  /\ UNCHANGED <<inputs, idx, soup, title, raw, cleaned1, cleaned2,
                 cleaned4, cleaned5, chapters, error>>

\* a fallthrough: every mode but "single" is taken for "double"
CollapseAnyMode ==
  /\ pc = "collapse"
  /\ cleaned1' = CollapseNewlines(prepped, config.newline_mode, break_string)
  /\ pc' = "squash"
  /\ UNCHANGED <<inputs, idx, soup, title, raw, prepped, cleaned2,
                 cleaned4, cleaned5, chapters, error>>

\* lines 131-134
Collapse ==
  /\ pc = "collapse"
  /\ config.newline_mode \in ValidModes
  /\ cleaned1' = CollapseNewlines(prepped, config.newline_mode, break_string)
  /\ pc' = "squash"
  /\ UNCHANGED <<inputs, idx, soup, title, raw, prepped, cleaned2,
                 cleaned4, cleaned5, chapters, error>>

\* lines 135-136: the ValueError leaves get_chapters; nothing is returned
RaiseInvalidMode ==
  /\ pc = "collapse"
  /\ config.newline_mode \notin ValidModes
  /\ error' = config.newline_mode
  /\ pc' = "raised"
  /\ UNCHANGED <<inputs, idx, soup, title, texts, chapters>>

\* the whitespace squash left out
SquashSkipped ==
  /\ pc = "squash"
  /\ cleaned2' = cleaned1
  /\ pc' = "endnotes"
  /\ UNCHANGED <<inputs, idx, soup, title, raw, prepped, cleaned1,
                 cleaned4, cleaned5, chapters, error>>

\* line 139
Squash ==
  /\ pc = "squash"
  /\ cleaned2' = SquashWhitespace(cleaned1)
  /\ pc' = "endnotes"
  /\ UNCHANGED <<inputs, idx, soup, title, raw, prepped, cleaned1,
                 cleaned4, cleaned5, chapters, error>>

\* lines 143-145
Endnotes ==
  /\ pc = "endnotes"
  /\ cleaned4' = IF config.remove_endnotes THEN StripEndnotes(cleaned2)
                                           ELSE cleaned2
  /\ pc' = "cjk"
  /\ UNCHANGED <<inputs, idx, soup, title, raw, prepped, cleaned1,
                 cleaned2, cleaned5, chapters, error>>

\* lines 148-157
Cjk ==
  /\ pc = "cjk"
  /\ cleaned5' = IF StartsWithZh(config.language) THEN CjkSpacer(cleaned4)
                                                  ELSE cleaned4
  /\ pc' = "sanitize"
  /\ UNCHANGED <<inputs, idx, soup, title, raw, prepped, cleaned1,
                 cleaned2, cleaned4, chapters, error>>

\* lines 160-163
SanitizeTitle ==
  /\ pc = "sanitize"
  /\ title' = sanitize_title(IF title = <<>> THEN Prefix(cleaned5, TitleSlice)
                                             ELSE title,
                             break_string)
  /\ pc' = "append"
  /\ UNCHANGED <<inputs, idx, soup, texts, chapters, error>>

\* a record is kept only when it has text
AppendNonEmpty ==
  /\ pc = "append"
  /\ chapters' = IF cleaned5 = <<>> THEN chapters
                 ELSE Append(chapters, <<title, cleaned5>>)
  /\ soup' = NoSoup
  /\ pc' = "loop"
  /\ UNCHANGED <<inputs, idx, title, texts, error>>

\* lines 166-167
AppendChapter ==
  /\ pc = "append"
  /\ chapters' = Append(chapters, <<title, cleaned5>>)
  /\ soup' = NoSoup
  /\ pc' = "loop"
  /\ UNCHANGED <<inputs, idx, title, texts, error>>

\* line 168
Return ==
  /\ pc = "loop"
  /\ idx = Len(book)
  /\ pc' = "returned"
  /\ UNCHANGED <<inputs, idx, soup, title, texts, chapters, error>>

(***************************************************************************)
(* Inputs.                                                                 *)
(***************************************************************************)
MaxDocs == 2

MaxNodes == 3

MaxLen == 4

MaxTitleLen == 3

\* every sequence over S of length at most n
SeqsUpTo(S, n) == UNION {[1..k -> S] : k \in 0..n}

Modes == {"single", "double", "triple"}

Languages == {<<"e", "n">>, <<"z", "h", "-", "C", "N">>}

Configs == [newline_mode : Modes, remove_endnotes : BOOLEAN, language : Languages]

\* the caller's sentinel " @BRK#", and a break string that is itself a newline
MagicBreak == <<" ", "@", "B", "R", "K", "#">>

BreakStrings == {MagicBreak, <<"\n">>}

ChapterOne == <<"C","h","a","p","t","e","r"," ","O","n","e">>

HeSaid == <<"H","e"," ","s","a","i","d","-","-","\"","H","e","l","l","o",";",
            "t","h","e","r","e",".","\"">>

\* <h1>Chapter One</h1><p>He said--"Hello;there."</p>
DocExample ==
  <<Element("h1", 0), String(ChapterOne, 1), Element("p", 0), String(HeSaid, 3)>>

\* <html><head><title>T</title></head><body><p>a\nb<a href="#n">1</a></p></body></html>
DocXhtml ==
  <<Element("html", 0), Element("head", 1), Element("title", 2),
    String(<<"T">>, 3), Element("body", 1), Element("p", 5),
    String(<<"a", "\n", "b">>, 6), Anchor(6), String(<<"1">>, 8)>>

\* <p>a.1</p>
DocPlain == <<Element("p", 0), String(<<"a", ".", "1">>, 1)>>

DocEmpty == <<>>

Docs == {DocExample, DocXhtml, DocPlain, DocEmpty}

Start(b, c, brk, position, tree, heading, text) ==
  /\ book = b /\ config = c /\ break_string = brk
  /\ idx = 0
  /\ pc = position
  /\ soup = tree
  /\ title = heading
  /\ raw = text /\ prepped = <<>>
  /\ cleaned1 = <<>> /\ cleaned2 = <<>> /\ cleaned4 = <<>> /\ cleaned5 = <<>>
  /\ chapters = <<>>
  /\ error = NoError

\* get_chapters is entered: nothing taken from the book yet
Init ==
  \E b \in SeqsUpTo(Docs, MaxDocs), c \in Configs, brk \in BreakStrings :
    Start(b, c, brk, "loop", NoSoup, <<>>, <<>>)

Next ==
  \/ NextItem
  \/ FilterBlacklist
  \/ FilterLinks
  \/ FindTitle
  \/ ExtractText
  \/ PrepText
  \/ Collapse
  \/ RaiseInvalidMode
  \/ Squash
  \/ Endnotes
  \/ Cjk
  \/ SanitizeTitle
  \/ AppendChapter
  \/ Return

Spec == Init /\ [][Next]_vars

(***************************************************************************)
(* The Markup Filter and the Title Resolver (lines 115-126) on every small *)
(* tree.                                                                   *)
(***************************************************************************)
NodeKinds == {Anchor(0), Element("p", 0), Element("code", 0), Element("h2", 0),
              String(<<"1">>, 0), String(<<"x">>, 0)}

TreeNodes(n) == {[k EXCEPT !.parent = q] : k \in NodeKinds, q \in 0..(n - 1)}

\* a parent comes before its children and is an element
TreesOf(n) ==
  {t \in [1..n -> TreeNodes(n)] :
     \A k \in 1..n : /\ t[k].parent < k
                     /\ t[k].parent # 0 => t[t[k].parent].name # "#text"}

Trees == UNION {TreesOf(n) : n \in 0..MaxNodes}

\* lines 115-126 read no setting
InitTree ==
  \E t \in Trees :
    Start(<<>>, [newline_mode |-> "single", remove_endnotes |-> FALSE,
                 language |-> <<"e", "n">>], MagicBreak, "blacklist",
          [nodes |-> t, alive |-> 1..Len(t)], <<>>, <<>>)

NextTree ==
  \/ FilterBlacklist
  \/ FilterLinks
  \/ FindTitle
  \/ ExtractText

SpecTree == InitTree /\ [][NextTree]_vars

(***************************************************************************)
(* The text steps (lines 130-166) on every short extracted text.           *)
(***************************************************************************)
NextText ==
  \/ PrepText
  \/ Collapse
  \/ RaiseInvalidMode
  \/ Squash
  \/ Endnotes
  \/ Cjk
  \/ SanitizeTitle
  \/ AppendChapter

InitText(Raws) ==
  \E t \in Raws, c \in Configs, brk \in BreakStrings :
    Start(<<>>, c, brk, "prep", NoSoup, <<>>, t)

\* a letter, a digit, a Hanzi, a space and the newline
NewlineAlphabet == {"a", "1", "U+4E2D", " ", "\n"}

InitNewline == InitText(SeqsUpTo(NewlineAlphabet, MaxLen))

SpecNewline == InitNewline /\ [][NextText]_vars

EndnoteAlphabet == {"a", "1", ".", " "}

\* end.12 middle3 done!45
EndnoteExample == <<"e","n","d",".","1","2"," ","m","i","d","d","l","e","3"," ",
                    "d","o","n","e","!","4","5">>

InitEndnote == InitText(SeqsUpTo(EndnoteAlphabet, MaxLen) \cup {EndnoteExample})

SpecEndnote == InitEndnote /\ [][NextText]_vars

\* a Hanzi, a space, the ideographic full stop, a Latin letter and a
\* character of the class of line 151
CjkAlphabet == {"U+4E2D", " ", "U+3002", "a", "U+0433"}

\* two sentences that begin alike, then one without a Hanzi
CjkExample == <<"U+4E2D", " ", "U+6587", "U+3002",
                "U+4E2D", " ", "U+6587", " ", "a", "U+3002", "b", " ", "c">>

InitCjk == InitText(SeqsUpTo(CjkAlphabet, MaxLen) \cup {CjkExample})

SpecCjk == InitCjk /\ [][NextText]_vars

(***************************************************************************)
(* The Title Sanitizer (lines 160-166) on every short title.               *)
(***************************************************************************)
TitleAlphabet == {"a", "!", " ", "_", "#"}

TitleBreakStrings == {MagicBreak, <<"#">>, <<"_">>, <<"a", "a">>, <<"a", "_", "a">>}

InitTitle ==
  \E t \in SeqsUpTo(TitleAlphabet, MaxTitleLen), c \in Configs,
     brk \in TitleBreakStrings, text \in {<<>>, <<"a", " ", "!">>} :
    /\ Start(<<>>, c, brk, "sanitize", NoSoup, t, <<>>)
    /\ cleaned5 = text

NextTitle ==
  \/ SanitizeTitle
  \/ AppendChapter

SpecTitle == InitTitle /\ [][NextTitle]_vars

(***************************************************************************)
(* Properties.                                                             *)
(***************************************************************************)
ValidConfig == config.newline_mode \in ValidModes

\* the record get_chapters computes from one document item alone
ChapterOf(content) ==
  LET parsed   == ParseLxml(content)
      filtered == DecomposeEach(parsed, FindAll(parsed, blacklist), 1)
      tree     == DecomposeEach(filtered, FindAllLinks(filtered), 1)
      heading  == ResolveTitle(tree, 1)
      c2 == SquashWhitespace(CollapseNewlines(prep_text(GetText(tree)),
                                              config.newline_mode, break_string))
      c4 == IF config.remove_endnotes THEN StripEndnotes(c2) ELSE c2
      c5 == IF StartsWithZh(config.language) THEN CjkSpacer(c4) ELSE c4
  IN  <<sanitize_title(IF heading = <<>> THEN Prefix(c5, TitleSlice) ELSE heading,
                       break_string), c5>>

\* C1: with a valid configuration the records are one per document item, in
\* the order of the items, the i-th computed from the i-th item alone; an
\* item's record is appended before the next item is taken, and the list
\* returned is as long as the book.
C1_OnePairPerDocument ==
  ValidConfig =>
    /\ Len(chapters) = (IF pc \in {"loop", "returned"} THEN idx ELSE idx - 1)
    /\ \A i \in 1..Len(chapters) : chapters[i] = ChapterOf(book[i])
    /\ pc = "returned" => Len(chapters) = Len(book)

C1_Witness ==
  /\ ValidConfig
  /\ pc = "returned"
  /\ Len(book) = 2 /\ book[1] # book[2]
  /\ Len(chapters) = 2

\* C2 as stated: with a newline mode other than single and double,
\* get_chapters fails for every book, naming the mode, and no record is made.
C2_EveryBookFails ==
  ~ValidConfig =>
    /\ pc # "returned"
    /\ chapters = <<>>
    /\ pc = "raised" => error = config.newline_mode

\* C2, amended: with a newline mode other than single and double and a book
\* of at least one document item, get_chapters never returns; it stops only
\* by raising the error that names the mode, while the first item is being
\* processed and before any record is made.
C2_NonEmptyBookFails ==
  (~ValidConfig /\ book # <<>>) =>
    /\ pc \in {"loop", "blacklist", "links", "title", "get_text", "prep",
               "collapse", "raised"}
    /\ idx <= 1
    /\ chapters = <<>>
    /\ pc = "raised" => error = config.newline_mode /\ idx = 1
    /\ ~(ENABLED Next) => pc = "raised"

C2_Witness ==
  /\ pc = "raised"
  /\ error = "triple"
  /\ Len(book) = 2
  /\ chapters = <<>>

\* C3: the text of every chapter record holds no newline character, whatever
\* the extracted text, the valid configuration and the break string.
C3_NoRawNewline ==
  /\ \A i \in 1..Len(chapters) : ~Contains(chapters[i][2], {"\n"})
  /\ pc \in {"endnotes", "cjk", "sanitize", "append"} =>
       ~Contains(cleaned2, {"\n"})

C3_Witness ==
  /\ Len(chapters) = 1
  /\ break_string = <<"\n">>
  /\ config.newline_mode = "single"
  /\ Contains(Strip(raw), {"\n"})
  /\ chapters[1][2] # <<>>

\* the number of places where sub occurs in s
CountOccurrences(s, sub) == Cardinality({i \in 1..Len(s) : MatchAt(s, sub, i)})

\* the number of maximal newline runs of at least k newlines in s
NewlineRuns(s, k) ==
  Cardinality({i \in 1..Len(s) :
                 /\ s[i] = "\n"
                 /\ i = 1 \/ s[i - 1] # "\n"
                 /\ RunEnd(s, {"\n"}, i) - i + 1 >= k})

\* C4: after prep_text, newline collapsing and whitespace squashing, mode
\* single has one break marker for every maximal run of newlines inside the
\* extracted text; mode double has one for every maximal run of two or more
\* newlines and none for a single newline.
C4_NewlineModes ==
  (/\ pc \in {"endnotes", "cjk", "sanitize", "append"}
   /\ break_string = MagicBreak) =>
     CountOccurrences(cleaned2, break_string) =
       NewlineRuns(Strip(raw), IF config.newline_mode = "single" THEN 1 ELSE 2)

\* C5: every chapter record appended has a non-empty title.
C5_TitleNonEmpty == \A i \in 1..Len(chapters) : chapters[i][1] # <<>>

\* C6 as stated: sanitizing a sanitized title again, with the same break
\* string, changes nothing, for every title and every break string.
C6_IdempotentForEveryBreak ==
  /\ pc = "append" => sanitize_title(title, break_string) = title
  /\ \A i \in 1..Len(chapters) :
       sanitize_title(chapters[i][1], break_string) = chapters[i][1]

\* C6, amended: sanitizing a sanitized title again changes nothing, for every
\* title and every break string that holds a character that is no word
\* character (as the sentinel " @BRK#" does).
C6_Idempotent ==
  (\E k \in 1..Len(break_string) : ~IsWord(break_string[k])) =>
    C6_IdempotentForEveryBreak

C6_Witness ==
  /\ pc = "append"
  /\ break_string = <<"#">>
  /\ title = <<"a", "_", "a">>

EndDot == <<"e","n","d",".">>

DoneBang == <<"d","o","n","e","!">>

EndnoteDigits(s) ==
  {i \in 1..Len(s) :
     /\ s[i] \in Digit
     /\ \E j \in 2..i : /\ \A k \in j..i : s[k] \in Digit
                        /\ s[j - 1] \in EndnoteLookbehind}

CjkTerminals == {"U+3002", "U+FF1F", "U+FF01"}

\* C8: with a language code that begins with zh, of the segments between the
\* three sentence-terminal marks, each one with a Hanzi has no whitespace
\* after the CJK step and each one without a Hanzi is as it was.
C8_CjkSegments ==
  (pc = "sanitize" /\ StartsWithZh(config.language)) =>
    LET before == Split(cleaned4, CjkTerminals)
        after  == Split(cleaned5, CjkTerminals)
    IN  /\ Len(after) = Len(before)
        /\ \A k \in 1..Len(before) :
             IF Contains(before[k], Hanzi)
             THEN ~Contains(after[k], Whitespace)
             ELSE after[k] = before[k]

IsLink(node) == node.name = "a" /\ node.href

\* C9: no link-bearing node is left in the tree after the Markup Filter,
\* however many the document had and wherever they were, and the text
\* extracted is the text of the strings that were under no link-bearing node
\* (and under no blacklisted element).
C9_NoLinkLeft ==
  /\ pc \in {"title", "get_text", "prep"} =>
       \A i \in soup.alive : ~IsLink(soup.nodes[i])
  /\ pc = "prep" =>
       raw = ConcatText(soup.nodes,
                        {j \in 1..Len(soup.nodes) :
                           \A i \in 1..Len(soup.nodes) :
                             IsUnder(soup.nodes, j, i) =>
                               /\ ~IsLink(soup.nodes[i])
                               /\ soup.nodes[i].name \notin blacklist}, 1)

\* a link with a letter for its text inside a paragraph that has text of its own
C9_Witness ==
  /\ pc = "prep"
  /\ Len(soup.nodes) = 3
  /\ soup.nodes[1].name = "p"
  /\ IsLink(soup.nodes[2]) /\ soup.nodes[2].parent = 1
  /\ soup.nodes[3] = String(<<"x">>, 2)
  /\ soup.alive = {1}

ChapterUnderscoreOne == <<"C","h","a","p","t","e","r","_","O","n","e">>

HeSaidClean == <<"H","e"," ","s","a","i","d",","," ","\"","H","e","l","l","o",
                 ","," ","t","h","e","r","e",".","\"">>

\* C10: <h1>Chapter One</h1><p>He said--"Hello;there."</p> with mode single,
\* endnote removal off and language en yields the record
\* (Chapter_One, He said, "Hello, there.").
C10_EndToEnd ==
  (/\ config.newline_mode = "single"
   /\ ~config.remove_endnotes
   /\ config.language = <<"e", "n">>) =>
     \A i \in 1..Len(chapters) :
       book[i] = DocExample => chapters[i] = <<ChapterUnderscoreOne, HeSaidClean>>
=============================================================================
